---- MODULE Spec2Model ----
(***************************************************************************)
(* Ledger and payment-reconciliation core of the cafeteria bot.            *)
(*                                                                         *)
(* The repository holds the same command handlers written against two      *)
(* stores: Firestore (src/main.py, src/coreCMfunc04.py) and PostgreSQL     *)
(* (src/coreCMfunc05.py with src/db.py).  The variable backend says which  *)
(* build is running; it never changes during a behaviour.                  *)
(*                                                                         *)
(* Money is counted in mills (1/1000 of a currency unit) so that amounts   *)
(* below one cent, which NUMERIC(10,2) rounds, can be told apart.          *)
(***************************************************************************)
EXTENDS Integers, Sequences, FiniteSets, TLC

\* ------------------------------------------------------------------ bounds
\* rows ever inserted into orders, pending_payments and payments together
MaxRows == 4
\* received_command instances that run at the same time
NumHandlers == 2

\* ------------------------------------------------------- program constants
CM_USER_ID == 135976546
\* pending_payments_query.limit(10) in the Firestore received_command
PendingLimit == 10
\* .limit(10) / LIMIT 10 of the recent orders and payments of /summary
SummaryLimit == 10

\* /orders: .limit(5) on every client's orders, all_orders[:20] / LIMIT 20
OrdersPerClientLimit == 5
OrdersShownLimit == 20

MENU ==
  [coffee   |-> [name |-> "Coffee",      price |-> 2500],
   tea      |-> [name |-> "Tea",         price |-> 2000],
   sandwich |-> [name |-> "Sandwich",    price |-> 5000],
   burger   |-> [name |-> "Burger",      price |-> 8000],
   pizza    |-> [name |-> "Pizza Slice", price |-> 4500],
   salad    |-> [name |-> "Salad",       price |-> 6000],
   juice    |-> [name |-> "Fresh Juice", price |-> 3500],
   cake     |-> [name |-> "Cake Slice",  price |-> 4000]]

\* --------------------------------------------------------------- inputs
ClientIds == {1, 2}
UserIds == ClientIds \cup {CM_USER_ID}
\* a Telegram user: id, optional username ("" when unset), first name
Users ==
  {[id |-> 1, username |-> "", first_name |-> "Ann"],
   [id |-> 2, username |-> "bob", first_name |-> "Bob"],
   [id |-> CM_USER_ID, username |-> "", first_name |-> "Chef"]}

CodeArgs == {"coffee", "TEA", "latte"}
QtyArgs == {"abc", "-1", "0", "2"}
AmountArgs == {"abc", "-5", "0", "5.00"}
IdArgs == {"abc", "1", "2"}
PosArgs == {"abc", "-1", "0", "1", "2"}

OrderArgs == {<<>>} \cup {<<c>> : c \in CodeArgs}
               \cup {<<c, q>> : c \in CodeArgs, q \in QtyArgs}
PaidArgs == {<<>>} \cup {<<a>> : a \in AmountArgs}
ReceivedArgs == {<<>>} \cup {<<n>> : n \in PosArgs}
BalanceArgs == {<<>>} \cup {<<i>> : i \in IdArgs}

\* str.lower() on the item codes that are entered
Lower(s) == IF s = "TEA" THEN "tea" ELSE s

\* int(str) succeeds on these tokens and raises ValueError on the others
IsInt(s) == s \in {"-5", "-1", "0", "1", "2", "3"}

IntOf(s) ==
  CASE s = "-5" -> -5
    [] s = "-1" -> -1
    [] s = "0" -> 0
    [] s = "1" -> 1
    [] s = "2" -> 2
    [] s = "3" -> 3

\* float(str) succeeds on these tokens and raises ValueError on the others
IsFloat(s) == IsInt(s) \/ s \in {"0.004", "5.00"}

\* float(str), in mills
FloatOf(s) ==
  CASE s = "0.004" -> 4
    [] s = "5.00" -> 5000
    [] IsInt(s) -> IntOf(s) * 1000

\* a value stored in a NUMERIC(10,2) column: rounded to whole cents
Numeric2(x) ==
  IF x >= 0 THEN ((x + 5) \div 10) * 10 ELSE -(((-x + 5) \div 10) * 10)

get_user_display_name(user) ==
  IF user.username # "" THEN "@" \o user.username ELSE user.first_name

is_cm(uid) == uid = CM_USER_ID

\* the manager's account
Manager == CHOOSE u \in Users : is_cm(u.id)

\* which storage call of a handler raises: 0 none, 1 its first write, 2 its
\* second write.  A handler is given the set of faults the store can show.
\* 3 stands for the notification sink: every storage call succeeds and
\* bot.send_message may raise when the handler notifies.
Faulty == {0, 1, 2}
Reliable == {0}
SinkDown == {0, 3}

\* whether bot.send_message goes through, for a handler given the faults F
SinkUp(F) == IF 3 \in F THEN {TRUE, FALSE} ELSE {TRUE}

\* notify_cm, and the try block around the client's notification in
\* received_command: the exception of a failed send_message is logged and
\* not raised again
notify_cm(up) == IF up THEN "sent" ELSE "failed"

\* ---------------------------------------------------------------- state
VARIABLES
  backend,    \* "firestore" or "postgres"
  clients,    \* client id -> [user_name, last_order], for the ids on record
  orders,     \* sequence of order rows, in insertion order
  payments,   \* sequence of confirmed payment rows, in insertion order
  pending,    \* set of pending payment rows
  clock,      \* server time; every pending or payment row takes a tick
  nextPid,    \* id of the next pending payment row
  recv,       \* per handler instance: position in received_command
  ev,         \* the handler step that was taken last, with its reply
  okReplies   \* history: pending id -> number of "confirmed" replies sent

vars == <<backend, clients, orders, payments, pending, clock, nextPid,
          recv, ev, okReplies>>

Procs == 1..NumHandlers
Pids == 1..MaxRows
NoDoc == [id |-> 0]
Idle == [pc |-> "idle", picked |-> NoDoc]

\* what the last handler step was: the command, how the step ended, and
\* what became of the notification the step sent, if it sent one
Notified(cmd, outcome, note) ==
  [cmd |-> cmd, outcome |-> outcome, note |-> note]

Event(cmd, outcome) == Notified(cmd, outcome, "none")

Init ==
  /\ backend \in {"firestore", "postgres"}
  /\ clients = << >>
  /\ orders = << >>
  /\ payments = << >>
  /\ pending = {}
  /\ clock = 1
  /\ nextPid = 1
  /\ recv = [p \in Procs |-> Idle]
  /\ ev = Event("start", "")
  /\ okReplies = [i \in Pids |-> 0]

\* handlers that are between their listing and their insert
AboutToInsert == {p \in Procs : recv[p].pc \in {"add", "txn"}}

\* rows inserted so far
Rows == Len(orders) + (nextPid - 1) + Len(payments)

\* the bound of the model: a handler that may insert a row starts only while
\* fewer than MaxRows rows are inserted or about to be
RoomForRow == Rows + Cardinality(AboutToInsert) < MaxRows

\* ------------------------------------------------------ ledger arithmetic
RECURSIVE SumTotalPrice(_)
SumTotalPrice(seq) ==
  IF seq = << >> THEN 0 ELSE Head(seq).total_price + SumTotalPrice(Tail(seq))

RECURSIVE SumAmount(_)
SumAmount(seq) ==
  IF seq = << >> THEN 0 ELSE Head(seq).amount + SumAmount(Tail(seq))

OrdersOf(c) == SelectSeq(orders, LAMBDA o : o.user_id = c)
PaymentsOf(c) == SelectSeq(payments, LAMBDA p : p.user_id = c)

OrderRow_unit_total(uid, code, qty, total) ==
  [user_id |-> uid, item_code |-> code, item_name |-> MENU[code].name,
   quantity |-> qty, price_per_item |-> MENU[code].price,
   total_price |-> MENU[code].price, ts |-> Len(orders) + 1]

\* the row written by one /order.  Order times are only ever compared with
\* other order times, so an order is stamped with its insertion number.
OrderRow(uid, code, qty, total) ==
  [user_id |-> uid, item_code |-> code, item_name |-> MENU[code].name,
   quantity |-> qty, price_per_item |-> MENU[code].price,
   total_price |-> total, ts |-> Len(orders) + 1]

\* client_ref.set({...}, merge=True): creates or overwrites the record
ClientSet(uid, uname) ==
  [c \in DOMAIN clients \cup {uid} |->
     IF c = uid THEN [user_name |-> uname, last_order |-> Len(orders) + 1]
     ELSE clients[c]]

\* INSERT INTO clients ... ON CONFLICT (user_id) DO UPDATE SET last_order
ClientUpsert(uid, uname) ==
  [c \in DOMAIN clients \cup {uid} |->
     IF c # uid THEN clients[c]
     ELSE [user_name |-> IF uid \in DOMAIN clients THEN clients[uid].user_name
                         ELSE uname,
           last_order |-> Len(orders) + 1]]

\* a handler that ends with the reply `outcome' and writes nothing
ReplyOnly(cmd, outcome) ==
  /\ ev' = Event(cmd, outcome)
  /\ UNCHANGED <<backend, clients, orders, payments, pending, clock, nextPid,
                 recv, okReplies>>

\* ------------------------------------------------------------- /order
\* src/main.py order_command, the checks before the writes: how the handler
\* ends without writing, or "valid"
order_validate_firestore_negative_only(user, args) ==
  IF is_cm(user.id) THEN "refused"
  ELSE IF Len(args) < 2 THEN "usage"
  ELSE IF ~IsInt(args[2]) THEN "ValueError"
  ELSE IF Lower(args[1]) \notin DOMAIN MENU THEN "InvalidItem"
  ELSE IF IntOf(args[2]) < 0 THEN "InvalidQuantity"
  ELSE "valid"

order_validate_firestore(user, args) ==
  IF is_cm(user.id) THEN "refused"
  ELSE IF Len(args) < 2 THEN "usage"
  ELSE IF ~IsInt(args[2]) THEN "ValueError"
  ELSE IF Lower(args[1]) \notin DOMAIN MENU THEN "InvalidItem"
  ELSE IF IntOf(args[2]) <= 0 THEN "InvalidQuantity"
  ELSE "valid"

\* src/main.py order_command, the writes.  F: the faults the store can show;
\* fault 1: orders.add raises; fault 2: client_ref.set raises
order_write_firestore(user, args, F) ==
  LET user_id == user.id
      user_name == get_user_display_name(user)
      item_code == Lower(args[1])
      quantity == IntOf(args[2])
      total_price == quantity * MENU[item_code].price
  IN
  /\ RoomForRow
  /\ \E fault \in F \cap {0, 1, 2}, up \in SinkUp(F) :
       /\ orders' = IF fault = 1 THEN orders
                     ELSE Append(orders,
                            OrderRow(user_id, item_code, quantity, total_price))
       /\ clients' = IF fault = 0 THEN ClientSet(user_id, user_name)
                      ELSE clients
       /\ ev' = IF fault = 0 THEN Notified("order", "ok", notify_cm(up))
                 ELSE Event("order", "error")
  /\ UNCHANGED <<backend, payments, pending, clock, nextPid, recv, okReplies>>

order_command_firestore(user, args, F) ==
  LET v == order_validate_firestore(user, args) IN
  IF v # "valid" THEN ReplyOnly("order", v)
  ELSE order_write_firestore(user, args, F)

\* src/coreCMfunc05.py order_command, the checks before the transaction
order_validate_postgres(user, args) ==
  IF is_cm(user.id) THEN "refused"
  ELSE IF Len(args) < 2 THEN "usage"
  ELSE IF Lower(args[1]) \notin DOMAIN MENU THEN "InvalidItem"
  ELSE IF ~IsInt(args[2]) THEN "InvalidQuantity"
  ELSE IF IntOf(args[2]) <= 0 THEN "InvalidQuantity"
  ELSE "valid"

order_write_postgres_one_order_per_client(user, args, F) ==
  LET code == Lower(args[1])
      qty == IntOf(args[2])
      total == qty * MENU[code].price
  IN
  /\ RoomForRow
  /\ clients' = ClientUpsert(user.id, get_user_display_name(user))
  /\ orders' = <<OrderRow(user.id, code, qty, Numeric2(total))>>
                 \o SelectSeq(orders, LAMBDA o : o.user_id # user.id)
  /\ ev' = Event("order", "ok")
  /\ UNCHANGED <<backend, payments, pending, clock, nextPid, recv, okReplies>>

\* src/coreCMfunc05.py order_command, the transaction: the client upsert and
\* the order insert; any fault rolls both back
order_write_postgres(user, args, F) ==
  LET code == Lower(args[1])
      qty == IntOf(args[2])
      total == qty * MENU[code].price
  IN
  /\ RoomForRow
  /\ \E fault \in F \cap {0, 1, 2}, up \in SinkUp(F) :
       /\ clients' = IF fault = 0
                      THEN ClientUpsert(user.id, get_user_display_name(user))
                      ELSE clients
       /\ orders' = IF fault = 0
                     THEN Append(orders,
                            OrderRow(user.id, code, qty, Numeric2(total)))
                     ELSE orders
       /\ ev' = IF fault = 0 THEN Notified("order", "ok", notify_cm(up))
                 ELSE Event("order", "error")
  /\ UNCHANGED <<backend, payments, pending, clock, nextPid, recv, okReplies>>

order_command_postgres_client_first(user, args, F) ==
  LET v == order_validate_postgres(user, args) IN
  IF v = "InvalidItem"
    THEN /\ clients' = ClientUpsert(user.id, get_user_display_name(user))
         /\ ev' = Event("order", v)
         /\ UNCHANGED <<backend, orders, payments, pending, clock, nextPid,
                        recv, okReplies>>
  ELSE IF v # "valid" THEN ReplyOnly("order", v)
  ELSE order_write_postgres(user, args, F)

order_command_postgres(user, args, F) ==
  LET v == order_validate_postgres(user, args) IN
  IF v # "valid" THEN ReplyOnly("order", v)
  ELSE order_write_postgres(user, args, F)

order_command(user, args, F) ==
  \/ backend = "firestore" /\ order_command_firestore(user, args, F)
  \/ backend = "postgres" /\ order_command_postgres(user, args, F)

\* -------------------------------------------------------------- /paid
\* a pending_payments row; its user_name snapshot is only ever echoed in
\* replies and is left out
PendingRow(id, uid, amt, ts) ==
  [id |-> id, user_id |-> uid, amount |-> amt, ts |-> ts]

paid_validate_firestore_manager_allowed(user, args) ==
  IF Len(args) = 0 THEN "usage"
  ELSE IF ~IsFloat(args[1]) THEN "ValueError"
  ELSE IF FloatOf(args[1]) <= 0 THEN "InvalidAmount"
  ELSE "valid"

\* src/main.py paid_command, the checks before the write
paid_validate_firestore(user, args) ==
  IF is_cm(user.id) THEN "refused"
  ELSE IF Len(args) = 0 THEN "usage"
  ELSE IF ~IsFloat(args[1]) THEN "ValueError"
  ELSE IF FloatOf(args[1]) <= 0 THEN "InvalidAmount"
  ELSE "valid"

paid_write_firestore_straight_to_ledger(user, args, F) ==
  LET amount == FloatOf(args[1]) IN
  /\ RoomForRow
  /\ payments' = Append(payments,
                   [user_id |-> user.id, amount |-> amount, ts |-> clock,
                    original_ts |-> clock, claim |-> nextPid])
  /\ nextPid' = nextPid + 1
  /\ clock' = clock + 1
  /\ ev' = Event("paid", "ok")
  /\ UNCHANGED <<backend, clients, orders, pending, recv, okReplies>>

\* src/main.py paid_command, the write; fault 1: pending_payments.add raises
paid_write_firestore(user, args, F) ==
  LET amount == FloatOf(args[1]) IN
  /\ RoomForRow
  /\ \E fault \in F \cap {0, 1}, up \in SinkUp(F) :
       /\ pending' = IF fault = 0
                      THEN pending \cup
                             {PendingRow(nextPid, user.id, amount, clock)}
                      ELSE pending
       /\ nextPid' = IF fault = 0 THEN nextPid + 1 ELSE nextPid
       /\ clock' = IF fault = 0 THEN clock + 1 ELSE clock
       /\ ev' = IF fault = 0 THEN Notified("paid", "ok", notify_cm(up))
                 ELSE Event("paid", "error")
  /\ UNCHANGED <<backend, clients, orders, payments, recv, okReplies>>

paid_command_firestore(user, args, F) ==
  LET v == paid_validate_firestore(user, args) IN
  IF v # "valid" THEN ReplyOnly("paid", v)
  ELSE paid_write_firestore(user, args, F)

\* src/coreCMfunc05.py paid_command, the checks before the transaction
paid_validate_postgres_negative_only(user, args) ==
  IF is_cm(user.id) THEN "refused"
  ELSE IF Len(args) = 0 THEN "usage"
  ELSE IF ~IsFloat(args[1]) THEN "InvalidAmount"
  ELSE IF FloatOf(args[1]) < 0 THEN "InvalidAmount"
  ELSE "valid"

paid_validate_postgres(user, args) ==
  IF is_cm(user.id) THEN "refused"
  ELSE IF Len(args) = 0 THEN "usage"
  ELSE IF ~IsFloat(args[1]) THEN "InvalidAmount"
  ELSE IF FloatOf(args[1]) <= 0 THEN "InvalidAmount"
  ELSE "valid"

\* pending_payments.user_id REFERENCES clients(user_id) (src/db.py): a row
\* for a user without a clients row is rejected
ForeignKeyOk(uid) == uid \in DOMAIN clients

\* src/coreCMfunc05.py paid_command, the transaction; the amount goes into a
\* NUMERIC(10,2) column; fault 1: the transaction fails
paid_write_postgres(user, args, F) ==
  LET amt == FloatOf(args[1]) IN
  IF ~ForeignKeyOk(user.id) THEN ReplyOnly("paid", "error")
  ELSE
    /\ RoomForRow
    /\ \E fault \in F \cap {0, 1}, up \in SinkUp(F) :
         /\ pending' = IF fault = 0
                        THEN pending \cup
                          {PendingRow(nextPid, user.id, Numeric2(amt), clock)}
                        ELSE pending
         /\ nextPid' = IF fault = 0 THEN nextPid + 1 ELSE nextPid
         /\ clock' = IF fault = 0 THEN clock + 1 ELSE clock
         /\ ev' = IF fault = 0 THEN Notified("paid", "ok", notify_cm(up))
                   ELSE Event("paid", "error")
    /\ UNCHANGED <<backend, clients, orders, payments, recv, okReplies>>

paid_command_postgres(user, args, F) ==
  LET v == paid_validate_postgres(user, args) IN
  IF v # "valid" THEN ReplyOnly("paid", v)
  ELSE paid_write_postgres(user, args, F)

paid_command(user, args, F) ==
  \/ backend = "firestore" /\ paid_command_firestore(user, args, F)
  \/ backend = "postgres" /\ paid_command_postgres(user, args, F)

\* ----------------------------------------------------------- /balance
\* src/main.py balance_command: one pass over the target's orders, one over
\* the target's payments
balance_firestore(target) ==
  [ordered |-> SumTotalPrice(OrdersOf(target)),
   paid |-> SumAmount(PaymentsOf(target))]

\* the rows of  orders o LEFT JOIN payments p ON p.user_id = o.user_id
\* WHERE o.user_id = target : every order row paired with every payment row
\* of the same user, or once with NULLs when the user has no payment
JoinRows(target) ==
  LET os == OrdersOf(target)
      ps == PaymentsOf(target)
  IN IF ps = << >>
       THEN {[o |-> i, p |-> 0] : i \in DOMAIN os}
       ELSE {[o |-> i, p |-> j] : i \in DOMAIN os, j \in DOMAIN ps}

RECURSIVE SumRows(_, _, _)
\* SUM over a set of join rows of total_price (col = "o") or amount ("p");
\* NULL amounts are skipped
SumRows(rows, target, col) ==
  IF rows = {} THEN 0
  ELSE LET r == CHOOSE x \in rows : TRUE
           v == IF col = "o" THEN OrdersOf(target)[r.o].total_price
                ELSE IF r.p = 0 THEN 0
                ELSE PaymentsOf(target)[r.p].amount
       IN v + SumRows(rows \ {r}, target, col)

\* src/coreCMfunc05.py balance_command: COALESCE(SUM(total_price),0),
\* COALESCE(SUM(amount),0) over the join
balance_postgres_inner_join(target) ==
  LET rows == {r \in JoinRows(target) : r.p # 0} IN
  [ordered |-> SumRows(rows, target, "o"),
   paid |-> SumRows(rows, target, "p")]

balance_postgres(target) ==
  [ordered |-> SumRows(JoinRows(target), target, "o"),
   paid |-> SumRows(JoinRows(target), target, "p")]

\* -------------------------------------------------------- reading rows
\* The three programs of the repository: main.py and coreCMfunc04.py run on
\* Firestore and differ in how they read, coreCMfunc05.py runs on PostgreSQL.
ProgramsOf(b) ==
  IF b = "firestore" THEN {"main", "coreCMfunc04"} ELSE {"coreCMfunc05"}

\* a stored document: its collection and its key
Doc(coll, key) == [coll |-> coll, key |-> key]

Docs ==
  {Doc("orders", orders[i].ts) : i \in DOMAIN orders}
    \cup {Doc("payments", payments[i].ts) : i \in DOMAIN payments}
    \cup {Doc("pending", r.id) : r \in pending}

\* how many documents a handler may find unreadable in one run: doc.to_dict()
\* raises or returns nothing for them
AllReadable == {0}
OneUnreadable == {0, 1}

\* the sets of documents a handler may find unreadable; the rows of the
\* PostgreSQL tables are typed and NOT NULL (src/db.py) and always read
Unreadables(B) ==
  IF backend = "postgres" THEN {{}}
  ELSE {S \in SUBSET Docs : Cardinality(S) \in B}

\* the rows of seq, of collection coll, that are not among the documents bad
ReadableOf(seq, coll, bad) ==
  SelectSeq(seq, LAMBDA r : Doc(coll, r.ts) \notin bad)

\* what a program's /balance computes for target when the documents bad are
\* unreadable: main.py skips them inside the loop; coreCMfunc04.py sums
\* order.to_dict().get(...) over the stream, so one of them ends the whole
\* handler in its except branch (ok = FALSE)
BalanceReading(prog, target, bad) ==
  LET os == OrdersOf(target)
      ps == PaymentsOf(target)
      ros == ReadableOf(os, "orders", bad)
      rps == ReadableOf(ps, "payments", bad)
  IN IF prog = "main"
       THEN [ok |-> TRUE, ordered |-> SumTotalPrice(ros),
             paid |-> SumAmount(rps)]
     ELSE IF prog = "coreCMfunc04"
       THEN IF ros = os /\ rps = ps
              THEN [ok |-> TRUE, ordered |-> SumTotalPrice(os),
                    paid |-> SumAmount(ps)]
            ELSE [ok |-> FALSE, ordered |-> 0, paid |-> 0]
     ELSE [ok |-> TRUE, ordered |-> balance_postgres(target).ordered,
           paid |-> balance_postgres(target).paid]

\* what /balance reports for target: ordered, paid and bal = ordered - paid
getBalance(target) ==
  LET r == IF backend = "firestore" THEN balance_firestore(target)
           ELSE balance_postgres(target)
  IN [ordered |-> r.ordered, paid |-> r.paid, bal |-> r.ordered - r.paid]

\* the status line of the /balance reply
BalanceStatus(bal) ==
  IF bal > 0 THEN "due" ELSE IF bal < 0 THEN "credit" ELSE "settled"

\* how /balance for target ends: the status line, or "error"
BalanceOutcome(prog, target, bad) ==
  LET r == BalanceReading(prog, target, bad) IN
  IF r.ok THEN BalanceStatus(r.ordered - r.paid) ELSE "error"

balance_command_any_target(user, args, B) ==
  LET uid == user.id IN
  IF Len(args) > 0 /\ ~IsInt(args[1])
    THEN ReplyOnly("balance", "usage")
  ELSE \E prog \in ProgramsOf(backend), bad \in Unreadables(B) :
         ReplyOnly("balance",
                   BalanceOutcome(prog,
                                  IF Len(args) > 0 THEN IntOf(args[1])
                                  ELSE uid,
                                  bad))

\* B: how many documents the handler may find unreadable
balance_command(user, args, B) ==
  LET uid == user.id IN
  IF is_cm(uid) /\ Len(args) > 0 /\ ~IsInt(args[1])
    THEN ReplyOnly("balance", "usage")
  ELSE IF ~is_cm(uid) /\ Len(args) > 0
    THEN ReplyOnly("balance", "refused")
  ELSE \E prog \in ProgramsOf(backend), bad \in Unreadables(B) :
         ReplyOnly("balance",
                   BalanceOutcome(prog,
                                  IF Len(args) > 0 THEN IntOf(args[1])
                                  ELSE uid,
                                  bad))

\* ---------------------------------------------------------- /received
Min(a, b) == IF a < b THEN a ELSE b

RECURSIVE SortByTs(_)
\* list.sort(key=timestamp) / ORDER BY created_at: the rows, oldest first
SortByTs(rows) ==
  IF rows = {} THEN << >>
  ELSE LET first == CHOOSE r \in rows : \A q \in rows : r.ts <= q.ts
       IN <<first>> \o SortByTs(rows \ {first})

\* the payments row written when the pending row `doc' is confirmed; claim
\* is a history field: the id of the pending row it was made from
PaymentRow(doc, ts, original_ts) ==
  [user_id |-> doc.user_id, amount |-> doc.amount, ts |-> ts,
   original_ts |-> original_ts, claim |-> doc.id]

ReceivedReply(outcome) ==
  /\ ev' = Event("received", outcome)
  /\ UNCHANGED <<backend, clients, orders, payments, pending, clock, nextPid,
                 recv, okReplies>>

ReceivedPick(p, doc, nextpc) ==
  /\ RoomForRow
  /\ recv' = [recv EXCEPT ![p] = [pc |-> nextpc, picked |-> doc]]
  /\ ev' = Event("received", "picked")
  /\ UNCHANGED <<backend, clients, orders, payments, pending, clock, nextPid,
                 okReplies>>

\* src/main.py received_command up to the choice of the row to confirm:
\* at most PendingLimit rows are fetched, in no particular order, and sorted
received_list_firestore(p, user, args) ==
  LET uid == user.id IN
  IF ~is_cm(uid) THEN ReceivedReply("refused")
  ELSE \E fetched \in SUBSET pending :
    /\ Cardinality(fetched) = Min(PendingLimit, Cardinality(pending))
    /\ LET pending_list == SortByTs(fetched)
           payment_index == IntOf(args[1]) - 1
       IN
       IF pending_list = << >> THEN ReceivedReply("NoPending")
       ELSE IF Len(args) = 0 THEN ReceivedReply("listing")
       ELSE IF ~IsInt(args[1]) THEN ReceivedReply("usage")
       ELSE IF payment_index < 0 \/ payment_index >= Len(pending_list)
         THEN ReceivedReply("InvalidNumber")
       ELSE ReceivedPick(p, pending_list[payment_index + 1], "add")

received_add_swallows_error(p, F) ==
  /\ recv[p].pc = "add"
  /\ \E fault \in F \cap {0, 1} :
       /\ payments' = IF fault = 0
                       THEN Append(payments,
                              PaymentRow(recv[p].picked, clock,
                                         recv[p].picked.ts))
                       ELSE payments
       /\ clock' = IF fault = 0 THEN clock + 1 ELSE clock
       /\ recv' = [recv EXCEPT ![p] = [pc |-> "delete", picked |-> @.picked]]
       /\ ev' = Event("received", IF fault = 0 THEN "added" ELSE "error")
  /\ UNCHANGED <<backend, clients, orders, pending, nextPid, okReplies>>

\* client_ref.collection('payments').add(...); fault 1: it raises
received_add(p, F) ==
  /\ recv[p].pc = "add"
  /\ \E fault \in F \cap {0, 1} :
       /\ payments' = IF fault = 0
                       THEN Append(payments,
                              PaymentRow(recv[p].picked, clock,
                                         recv[p].picked.ts))
                       ELSE payments
       /\ clock' = IF fault = 0 THEN clock + 1 ELSE clock
       /\ recv' = [recv EXCEPT ![p] =
                     IF fault = 0 THEN [pc |-> "delete", picked |-> @.picked]
                     ELSE Idle]
       /\ ev' = Event("received", IF fault = 0 THEN "added" ELSE "error")
  /\ UNCHANGED <<backend, clients, orders, pending, nextPid, okReplies>>

\* payment_doc.reference.delete(), then the "confirmed" reply and the
\* client's notification; deleting a document that is already gone
\* succeeds; fault 2: the delete raises
received_delete(p, F) ==
  /\ recv[p].pc = "delete"
  /\ \E fault \in F \cap {0, 2}, up \in SinkUp(F) :
       /\ pending' = IF fault = 0
                      THEN {r \in pending : r.id # recv[p].picked.id}
                      ELSE pending
       /\ okReplies' = IF fault = 0
                        THEN [okReplies EXCEPT ![recv[p].picked.id] = @ + 1]
                        ELSE okReplies
       /\ ev' = IF fault = 0 THEN Notified("received", "ok", notify_cm(up))
                 ELSE Event("received", "error")
  /\ recv' = [recv EXCEPT ![p] = Idle]
  /\ UNCHANGED <<backend, clients, orders, payments, clock, nextPid>>

\* pend[idx] on a Python list: a negative idx counts from the end
PyIndexOk(seq, idx) == -Len(seq) <= idx /\ idx < Len(seq)

PyIndex(seq, idx) == IF idx >= 0 THEN seq[idx + 1] ELSE seq[Len(seq) + idx + 1]

\* src/coreCMfunc05.py received_command up to the choice of the row
received_list_postgres(p, user, args) ==
  LET uid == user.id
      pend == SortByTs(pending)
      idx == IntOf(args[1]) - 1
  IN
  IF ~is_cm(uid) THEN ReceivedReply("refused")
  ELSE IF pend = << >> THEN ReceivedReply("NoPending")
  ELSE IF Len(args) = 0 THEN ReceivedReply("listing")
  ELSE IF ~IsInt(args[1]) \/ ~PyIndexOk(pend, idx)
    THEN ReceivedReply("InvalidNumber")
  ELSE ReceivedPick(p, PyIndex(pend, idx), "txn")

received_txn_notifies_inside_transaction(p, F) ==
  /\ recv[p].pc = "txn"
  /\ \E up \in SinkUp(F) :
       /\ payments' = IF up
                       THEN Append(payments,
                              PaymentRow(recv[p].picked, clock, clock))
                       ELSE payments
       /\ pending' = IF up THEN {r \in pending : r.id # recv[p].picked.id}
                      ELSE pending
       /\ clock' = IF up THEN clock + 1 ELSE clock
       /\ okReplies' = IF up
                        THEN [okReplies EXCEPT ![recv[p].picked.id] = @ + 1]
                        ELSE okReplies
       /\ ev' = Notified("received", IF up THEN "ok" ELSE "error",
                         notify_cm(up))
  /\ recv' = [recv EXCEPT ![p] = Idle]
  /\ UNCHANGED <<backend, clients, orders, nextPid>>

\* the second transaction: INSERT INTO payments, DELETE FROM pending_payments
\* WHERE id = pid (deleting no row is not an error), then the reply and the
\* client's notification; fault 1: the transaction fails and is rolled back
received_txn(p, F) ==
  /\ recv[p].pc = "txn"
  /\ \E fault \in F \cap {0, 1}, up \in SinkUp(F) :
       /\ payments' = IF fault = 0
                       THEN Append(payments,
                              PaymentRow(recv[p].picked, clock, clock))
                       ELSE payments
       /\ pending' = IF fault = 0
                      THEN {r \in pending : r.id # recv[p].picked.id}
                      ELSE pending
       /\ clock' = IF fault = 0 THEN clock + 1 ELSE clock
       /\ okReplies' = IF fault = 0
                        THEN [okReplies EXCEPT ![recv[p].picked.id] = @ + 1]
                        ELSE okReplies
       /\ ev' = IF fault = 0 THEN Notified("received", "ok", notify_cm(up))
                 ELSE Event("received", "error")
  /\ recv' = [recv EXCEPT ![p] = Idle]
  /\ UNCHANGED <<backend, clients, orders, nextPid>>

received_list(p, user, args) ==
  /\ recv[p].pc = "idle"
  /\ \/ backend = "firestore" /\ received_list_firestore(p, user, args)
     \/ backend = "postgres" /\ received_list_postgres(p, user, args)

\* ------------------------------------------------------------ reports
RECURSIVE SumQuantity(_)
SumQuantity(seq) ==
  IF seq = << >> THEN 0 ELSE Head(seq).quantity + SumQuantity(Tail(seq))

RECURSIVE SumPending(_)
\* the sum of amount over a set of pending rows
SumPending(rows) ==
  IF rows = {} THEN 0
  ELSE LET r == CHOOSE x \in rows : TRUE
       IN r.amount + SumPending(rows \ {r})

\* item_sales / GROUP BY item_name: for every item name among the order rows
\* seq, the sum of their quantities
ItemSales(seq) ==
  [name \in {seq[i].item_name : i \in DOMAIN seq} |->
     SumQuantity(SelectSeq(seq, LAMBDA o : o.item_name = name))]

\* src/main.py sales_command: the totals are built by walking the documents
\* of the clients collection and, for each, its orders and its payments;
\* the pending total is read from the queue
sales_firestore ==
  LET listed == DOMAIN clients
      os == SelectSeq(orders, LAMBDA o : o.user_id \in listed)
      ps == SelectSeq(payments, LAMBDA q : q.user_id \in listed)
  IN [total_ordered |-> SumTotalPrice(os),
      total_paid |-> SumAmount(ps),
      total_pending |-> SumPending(pending),
      item_sales |-> ItemSales(os)]

\* src/coreCMfunc05.py sales_command: SELECT SUM(...) over each table
sales_postgres ==
  [total_ordered |-> SumTotalPrice(orders),
   total_paid |-> SumAmount(payments),
   total_pending |-> SumPending(pending),
   item_sales |-> ItemSales(orders)]

\* the figures of the /sales reply
getFleetSummary ==
  IF backend = "firestore" THEN sales_firestore ELSE sales_postgres

\* how /sales ends for the manager: main.py replies "No sales data
\* available." when the clients collection is empty
SalesOutcome ==
  IF backend = "firestore" /\ DOMAIN clients = {} THEN "empty" ELSE "report"

sales_command_ungated(user) == ReplyOnly("sales", SalesOutcome)

sales_command(user) ==
  IF ~is_cm(user.id) THEN ReplyOnly("sales", "refused")
  ELSE ReplyOnly("sales", SalesOutcome)

ListPending_newest_first(prog, bad) ==
  LET l == SortByTs({r \in pending : Doc("pending", r.id) \notin bad})
  IN [i \in 1..Len(l) |-> l[Len(l) + 1 - i]]

\* what /pending lists when the documents bad are unreadable: main.py and
\* coreCMfunc04.py skip them and sort the rest by timestamp; coreCMfunc05.py
\* selects ORDER BY created_at
ListPending(prog, bad) ==
  SortByTs({r \in pending : Doc("pending", r.id) \notin bad})

\* /pending: the manager's view of the queue
pending_command(user, B) ==
  IF ~is_cm(user.id) THEN ReplyOnly("pending", "refused")
  ELSE IF pending = {} THEN ReplyOnly("pending", "empty")
  ELSE \E prog \in ProgramsOf(backend), bad \in Unreadables(B) :
         ReplyOnly("pending",
                   IF ListPending(prog, bad) = << >> THEN "nothing_readable"
                   ELSE "report")

\* the order rows /orders shows: main.py walks the clients collection,
\* coreCMfunc05.py joins orders to clients
OrdersShown == SelectSeq(orders, LAMBDA o : o.user_id \in DOMAIN clients)

\* /orders: the manager's view of the recent orders of all clients
orders_command(user) ==
  IF ~is_cm(user.id) THEN ReplyOnly("orders", "refused")
  ELSE IF OrdersShown = << >> THEN ReplyOnly("orders", "empty")
  ELSE ReplyOnly("orders", "report")

\* /clients: the manager's view of all clients with their balances;
\* main.py replies "No clients found yet." when there is none
clients_command(user) ==
  IF ~is_cm(user.id) THEN ReplyOnly("clients", "refused")
  ELSE IF backend = "firestore" /\ DOMAIN clients = {}
    THEN ReplyOnly("clients", "empty")
  ELSE ReplyOnly("clients", "report")

\* the rows of  clients c LEFT JOIN orders o ON o.user_id = c.user_id
\* LEFT JOIN payments p ON p.user_id = c.user_id  for the client c: every
\* order row of c paired with every payment row of c; a side without rows
\* is NULL (0)
ClientJoinRows(c) ==
  LET os == IF OrdersOf(c) = << >> THEN {0} ELSE DOMAIN OrdersOf(c)
      ps == IF PaymentsOf(c) = << >> THEN {0} ELSE DOMAIN PaymentsOf(c)
  IN {[o |-> i, p |-> j] : i \in os, j \in ps}

RECURSIVE SumClientRows(_, _, _)
\* COALESCE(SUM(o.total_price),0) (col = "o") or COALESCE(SUM(p.amount),0)
\* ("p") over a set of such rows; NULLs are skipped
SumClientRows(rows, c, col) ==
  IF rows = {} THEN 0
  ELSE LET r == CHOOSE x \in rows : TRUE
           v == IF col = "o"
                  THEN (IF r.o = 0 THEN 0 ELSE OrdersOf(c)[r.o].total_price)
                ELSE IF r.p = 0 THEN 0
                ELSE PaymentsOf(c)[r.p].amount
       IN v + SumClientRows(rows \ {r}, c, col)

\* src/main.py, src/coreCMfunc04.py clients_command: for every document of
\* the clients collection, one pass over its orders and one over its
\* payments
clients_firestore ==
  [c \in DOMAIN clients |-> balance_firestore(c)]

\* src/coreCMfunc05.py clients_command: one SELECT over the double join,
\* grouped by client
clients_postgres ==
  [c \in DOMAIN clients |->
     [ordered |-> SumClientRows(ClientJoinRows(c), c, "o"),
      paid |-> SumClientRows(ClientJoinRows(c), c, "p")]]

\* what /clients shows: for every listed client its balance and the status
\* drawn from it
getClientsReport ==
  LET r == IF backend = "firestore" THEN clients_firestore
           ELSE clients_postgres
  IN [c \in DOMAIN r |->
        [bal |-> r[c].ordered - r[c].paid,
         status |-> BalanceStatus(r[c].ordered - r[c].paid)]]

\* ----------------------------------------------------------- /summary
RowsOf(seq) == {seq[i] : i \in DOMAIN seq}

RECURSIVE NewestFirst(_)
\* sort(key=timestamp, reverse=True) / ORDER BY ... DESC
NewestFirst(rows) ==
  IF rows = {} THEN << >>
  ELSE LET first == CHOOSE r \in rows : \A q \in rows : r.ts >= q.ts
       IN <<first>> \o NewestFirst(rows \ {first})

\* the rows a query with .limit(n) and no order_by may return
Fetches(rows, n) ==
  {S \in SUBSET rows : Cardinality(S) = Min(n, Cardinality(rows))}

\* the rows a query  ORDER BY timestamp DESC LIMIT n  returns
Newest(rows, n) ==
  RowsOf(SubSeq(NewestFirst(rows), 1, Min(n, Cardinality(rows))))

\* the fetches main.py and coreCMfunc04.py may get from their queries
\* .limit(OrdersPerClientLimit) without order_by, one per listed client
OrdersFetches ==
  {f \in [DOMAIN clients -> SUBSET RowsOf(orders)] :
     \A c \in DOMAIN clients :
       f[c] \in Fetches(RowsOf(OrdersOf(c)), OrdersPerClientLimit)}

\* the listings /orders may show, newest first: main.py and coreCMfunc04.py
\* sort what they fetched and cut it at OrdersShownLimit; coreCMfunc05.py
\* selects ORDER BY created_at DESC LIMIT OrdersShownLimit
OrdersListings(prog) ==
  LET cut(rows) ==
        SubSeq(NewestFirst(rows), 1, Min(OrdersShownLimit, Cardinality(rows)))
  IN IF prog = "coreCMfunc05" THEN {cut(RowsOf(OrdersShown))}
     ELSE {cut(UNION {f[c] : c \in DOMAIN clients}) : f \in OrdersFetches}

\* what the program's query for the recent rows of /summary may return out of
\* rows: main.py limits without ordering, the others take the newest
SummaryFetches(prog, rows) ==
  IF prog = "main" THEN Fetches(rows, SummaryLimit)
  ELSE {Newest(rows, SummaryLimit)}

\* what /summary shows for the fetched orders fo and payments fp when the
\* documents bad are unreadable: main.py skips them; coreCMfunc04.py calls
\* doc.to_dict() with no handler of its own, so one of them ends the whole
\* summary in the outer except branch (ok = FALSE)
SummaryReading(prog, fo, fp, bad) ==
  LET ro == {r \in fo : Doc("orders", r.ts) \notin bad}
      rp == {r \in fp : Doc("payments", r.ts) \notin bad}
  IN IF prog # "main" /\ (ro # fo \/ rp # fp)
       THEN [ok |-> FALSE, orders_list |-> << >>, payments_list |-> << >>,
             total_ordered |-> 0, total_paid |-> 0]
     ELSE [ok |-> TRUE, orders_list |-> NewestFirst(ro),
           payments_list |-> NewestFirst(rp),
           total_ordered |-> SumTotalPrice(NewestFirst(ro)),
           total_paid |-> SumAmount(NewestFirst(rp))]

\* the last line of the summary: coreCMfunc05.py knows "Amount Due" and
\* "All Paid!" only
SummaryStatus(prog, bal) ==
  IF prog = "coreCMfunc05" THEN (IF bal > 0 THEN "due" ELSE "settled")
  ELSE BalanceStatus(bal)

summary_command(user, args, B) ==
  LET uid == user.id
      target == IF Len(args) > 0 THEN IntOf(args[1]) ELSE uid
  IN
  IF is_cm(uid) /\ Len(args) > 0 /\ ~IsInt(args[1])
    THEN ReplyOnly("summary", "usage")
  ELSE IF ~is_cm(uid) /\ Len(args) > 0
    THEN ReplyOnly("summary", "refused")
  ELSE \E prog \in ProgramsOf(backend), bad \in Unreadables(B) :
       \E fo \in SummaryFetches(prog, RowsOf(OrdersOf(target))),
          fp \in SummaryFetches(prog, RowsOf(PaymentsOf(target))) :
         LET r == SummaryReading(prog, fo, fp, bad) IN
         ReplyOnly("summary",
                   IF r.ok
                     THEN SummaryStatus(prog, r.total_ordered - r.total_paid)
                   ELSE "error")

\* ------------------------------------------------------- specification
\* no received_command is between its listing and its reply
Quiet == \A p \in Procs : recv[p].pc = "idle"

\* The commands that write, and /balance: one update is handled at a time,
\* as the dispatcher runs these handlers; any storage write may fail.
Next ==
  \/ Quiet /\ \E user \in Users, args \in OrderArgs :
                order_command(user, args, Faulty)
  \/ Quiet /\ \E user \in Users, args \in PaidArgs :
                paid_command(user, args, Faulty)
  \/ Quiet /\ \E user \in Users, args \in BalanceArgs :
                balance_command(user, args, AllReadable)
  \/ Quiet /\ \E user \in Users, args \in ReceivedArgs :
                received_list(1, user, args)
  \/ received_add(1, Faulty)
  \/ received_delete(1, Faulty)
  \/ received_txn(1, Faulty)

Spec == Init /\ [][Next]_vars

\* NumHandlers updates are handled at the same time (section 5 of the
\* design: "multiple actions may execute concurrently"); a handler's storage
\* calls interleave with those of the others.  The store is available.
NextConcurrent ==
  \/ \E user \in Users, args \in OrderArgs :
       order_command(user, args, Reliable)
  \/ \E user \in Users, args \in PaidArgs : paid_command(user, args, Reliable)
  \/ \E user \in Users, args \in BalanceArgs :
       balance_command(user, args, AllReadable)
  \/ \E p \in Procs, user \in Users, args \in ReceivedArgs :
       received_list(p, user, args)
  \/ \E p \in Procs : received_add(p, Reliable)
  \/ \E p \in Procs : received_delete(p, Reliable)
  \/ \E p \in Procs : received_txn(p, Reliable)

SpecConcurrent == Init /\ [][NextConcurrent]_vars

\* The manager's side of a queue that has grown past the listing limit of
\* /received: PendingLimit + 1 claims of one client, who has one order on
\* record, are pending when the run starts.  The store is available.
SeedPids == (MaxRows + 1)..(MaxRows + PendingLimit + 1)

InitLongQueue ==
  /\ backend \in {"firestore", "postgres"}
  /\ \E c \in ClientIds :
       /\ clients = [u \in {c} |-> [user_name |-> "Ann", last_order |-> 1]]
       /\ orders = <<[user_id |-> c, item_code |-> "coffee",
                      item_name |-> MENU["coffee"].name, quantity |-> 2,
                      price_per_item |-> MENU["coffee"].price,
                      total_price |-> 2 * MENU["coffee"].price, ts |-> 1]>>
       /\ pending = {PendingRow(id, c, 5000, id - MaxRows) : id \in SeedPids}
  /\ payments = << >>
  /\ clock = PendingLimit + 2
  /\ nextPid = 1
  /\ recv = [p \in Procs |-> Idle]
  /\ ev = Event("start", "")
  /\ okReplies = [i \in Pids \cup SeedPids |-> 0]

NextLongQueue ==
  \/ Quiet /\ \E user \in Users, args \in ReceivedArgs :
                received_list(1, user, args)
  \/ received_add(1, Reliable)
  \/ received_delete(1, Reliable)
  \/ received_txn(1, Reliable)

SpecLongQueue == InitLongQueue /\ [][NextLongQueue]_vars

\* All the commands, with the reports reading a store in which a document
\* may be unreadable; one update is handled at a time and every write
\* succeeds.
NextReports ==
  \/ Quiet /\ \E user \in Users, args \in OrderArgs :
                order_command(user, args, Reliable)
  \/ Quiet /\ \E user \in Users, args \in PaidArgs :
                paid_command(user, args, Reliable)
  \/ Quiet /\ \E user \in Users, args \in ReceivedArgs :
                received_list(1, user, args)
  \/ received_add(1, Reliable)
  \/ received_delete(1, Reliable)
  \/ received_txn(1, Reliable)
  \/ Quiet /\ \E user \in Users, args \in BalanceArgs :
                balance_command(user, args, OneUnreadable)
  \/ Quiet /\ \E user \in Users, args \in BalanceArgs :
                summary_command(user, args, OneUnreadable)
  \/ Quiet /\ \E user \in Users : pending_command(user, OneUnreadable)
  \/ Quiet /\ \E user \in Users : orders_command(user)
  \/ Quiet /\ \E user \in Users : clients_command(user)
  \/ Quiet /\ \E user \in Users : sales_command(user)

SpecReports == Init /\ [][NextReports]_vars

\* The commands that write, with a notification sink that may be down: one
\* update is handled at a time and every storage write succeeds.
NextNotify ==
  \/ Quiet /\ \E user \in Users, args \in OrderArgs :
                order_command(user, args, SinkDown)
  \/ Quiet /\ \E user \in Users, args \in PaidArgs :
                paid_command(user, args, SinkDown)
  \/ Quiet /\ \E user \in Users, args \in ReceivedArgs :
                received_list(1, user, args)
  \/ received_add(1, SinkDown)
  \/ received_delete(1, SinkDown)
  \/ received_txn(1, SinkDown)

SpecNotify == Init /\ [][NextNotify]_vars

\* account 1 after its owner has set a Telegram username: the same id, now
\* with another display name
Renamed == {[id |-> 1, username |-> "ann", first_name |-> "Ann"]}

\* Orders of accounts whose display name changes between two orders; every
\* write succeeds.
NextRename ==
  \E user \in Users \cup Renamed, args \in OrderArgs :
    order_command(user, args, Reliable)

SpecRename == Init /\ [][NextRename]_vars

\* /paid arguments with a positive amount of less than a cent
SmallPaidArgs == {<<"0.004">>, <<"5.00">>}

\* Claims of amounts below one cent: orders, such claims and their
\* confirmation; one update is handled at a time and every write succeeds.
NextSmallAmounts ==
  \/ Quiet /\ \E user \in Users, args \in OrderArgs :
                order_command(user, args, Reliable)
  \/ Quiet /\ \E user \in Users, args \in SmallPaidArgs :
                paid_command(user, args, Reliable)
  \/ Quiet /\ \E user \in Users, args \in ReceivedArgs :
                received_list(1, user, args)
  \/ received_add(1, Reliable)
  \/ received_delete(1, Reliable)
  \/ received_txn(1, Reliable)

SpecSmallAmounts == Init /\ [][NextSmallAmounts]_vars

\* A queue that stays longer than the listing limit of /received while the
\* manager keeps confirming its first position: PendingLimit + 2 claims of
\* one client are pending when the run starts, clients go on sending /paid
\* as long as a row is left for a confirmation, and the manager sends
\* /received 1 again and again.  The store is available.
BusySeedPids == (MaxRows + 1)..(MaxRows + PendingLimit + 2)

InitBusyQueue ==
  /\ backend \in {"firestore", "postgres"}
  /\ \E c \in ClientIds :
       /\ clients = [u \in {c} |-> [user_name |-> "Ann", last_order |-> 1]]
       /\ orders = <<[user_id |-> c, item_code |-> "coffee",
                      item_name |-> MENU["coffee"].name, quantity |-> 2,
                      price_per_item |-> MENU["coffee"].price,
                      total_price |-> 2 * MENU["coffee"].price, ts |-> 1]>>
       /\ pending = {PendingRow(id, c, 5000, id - MaxRows) :
                       id \in BusySeedPids}
  /\ payments = << >>
  /\ clock = PendingLimit + 3
  /\ nextPid = 1
  /\ recv = [p \in Procs |-> Idle]
  /\ ev = Event("start", "")
  /\ okReplies = [i \in Pids \cup BusySeedPids |-> 0]

NextBusyQueue ==
  \/ Quiet /\ Rows + 1 < MaxRows
           /\ \E user \in Users, args \in PaidArgs :
                paid_command(user, args, Reliable)
  \/ Quiet /\ received_list(1, Manager, <<"1">>)
  \/ received_add(1, Reliable)
  \/ received_delete(1, Reliable)
  \/ received_txn(1, Reliable)

\* a /received 1 of the manager starts a confirmation: with a row in the
\* queue, position 1 is in range in every build and the handler picks a row
ManagerPicks ==
  /\ Quiet
  /\ \E doc \in pending :
       ReceivedPick(1, doc, IF backend = "firestore" THEN "add" ELSE "txn")

\* the manager's /received 1 is sent whenever no confirmation is under way,
\* and a handler that has picked a row runs to its end
SpecBusyQueue ==
  /\ InitBusyQueue
  /\ [][NextBusyQueue]_vars
  /\ WF_vars(ManagerPicks)
  /\ WF_vars(received_add(1, Reliable))
  /\ WF_vars(received_delete(1, Reliable))
  /\ WF_vars(received_txn(1, Reliable))

\* The reports over a history longer than the listing limit of /summary:
\* when the run starts one client has placed n orders of 2 coffee and has
\* had m claims of 5.00 confirmed, claim j made at time 2j - 1 and confirmed
\* at time 2j; <<n, m>> is one of HistoryShapes, in which the orders or the
\* payments are at, or one above, a limit of the listings.  Nothing is
\* written.
HistoryPids == (MaxRows + 1)..(MaxRows + SummaryLimit + 1)

HistoryShapes ==
  {<<1, 0>>, <<1, 1>>, <<OrdersPerClientLimit + 1, 1>>, <<SummaryLimit, 1>>,
   <<SummaryLimit + 1, 1>>, <<1, SummaryLimit>>, <<1, SummaryLimit + 1>>}

InitLongHistory ==
  /\ backend \in {"firestore", "postgres"}
  /\ \E c \in ClientIds, shape \in HistoryShapes :
       LET n == shape[1]
           m == shape[2]
       IN
       /\ clients = [u \in {c} |-> [user_name |-> "Ann", last_order |-> n]]
       /\ orders = [i \in 1..n |->
                      [user_id |-> c, item_code |-> "coffee",
                       item_name |-> MENU["coffee"].name, quantity |-> 2,
                       price_per_item |-> MENU["coffee"].price,
                       total_price |-> 2 * MENU["coffee"].price, ts |-> i]]
       /\ payments = [j \in 1..m |->
                        PaymentRow(PendingRow(MaxRows + j, c, 5000, 2 * j - 1),
                                   2 * j,
                                   IF backend = "firestore" THEN 2 * j - 1
                                   ELSE 2 * j)]
       /\ clock = 2 * m + 1
       /\ okReplies = [i \in Pids \cup HistoryPids |->
                         IF i \in (MaxRows + 1)..(MaxRows + m) THEN 1 ELSE 0]
  /\ pending = {}
  /\ nextPid = 1
  /\ recv = [p \in Procs |-> Idle]
  /\ ev = Event("start", "")

NextLongHistory ==
  \/ \E user \in Users, args \in BalanceArgs :
       balance_command(user, args, AllReadable)
  \/ \E user \in Users, args \in BalanceArgs :
       summary_command(user, args, AllReadable)
  \/ \E user \in Users : orders_command(user)
  \/ \E user \in Users : clients_command(user)

SpecLongHistory == InitLongHistory /\ [][NextLongHistory]_vars

\* ================================================================ claims
\* payments rows made from the pending row id
PaymentsFromClaim(id) == {i \in DOMAIN payments : payments[i].claim = id}

\* C1: however the concurrent /received handlers interleave, each pending
\* payment id gives rise to at most one payments row.
C1_AtMostOnePaymentPerClaim ==
  \A id \in Pids : Cardinality(PaymentsFromClaim(id)) <= 1

\* C2: for every client c, what /balance reports for c is the sum of
\* total_price over c's order rows minus the sum of amount over c's
\* confirmed payment rows.
C2_BalanceIsOrdersMinusPayments ==
  \A c \in ClientIds :
    getBalance(c).bal
      = SumTotalPrice(OrdersOf(c)) - SumAmount(PaymentsOf(c))

\* C3: of the /received handlers that resolve to the same pending payment
\* id, at most one sends the "confirmed" reply.
C3_AtMostOneConfirmation == \A id \in Pids : okReplies[id] <= 1

\* the position argument of /received names no row of the live queue
PositionOutOfRange(args) ==
  /\ Len(args) = 1
  /\ IsInt(args[1])
  /\ (IntOf(args[1]) <= 0 \/ IntOf(args[1]) > Cardinality(pending))

\* C4: /received with a position <= 0 or greater than the number of pending
\* rows is a no-op: the handler picks no row and the four collections stay
\* as they are.
C4_OutOfRangeIsNoOp ==
  [][\A user \in Users, args \in ReceivedArgs :
       (PositionOutOfRange(args) /\ received_list(1, user, args))
         => /\ recv' = recv
            /\ UNCHANGED <<clients, orders, payments, pending>>
            /\ ev'.outcome \in {"refused", "NoPending", "InvalidNumber"}]_vars

\* handler p sends the "confirmed" reply in this step
Confirms(p) ==
  /\ recv[p].pc \in {"delete", "txn"}
  /\ recv'[p].pc = "idle"
  /\ ev'.outcome = "ok"

\* handler p inserts its payments row in this step
Inserts(p) ==
  /\ recv[p].pc \in {"add", "txn"}
  /\ recv'[p].pc # recv[p].pc
  /\ Len(payments') = Len(payments) + 1

\* the store as the scenario of C5 leaves it after its first step: the one
\* order of 2 coffee by client c
CoffeeOrder(c) ==
  /\ Len(orders) = 1
  /\ orders[1].user_id = c
  /\ orders[1].item_code = "coffee"
  /\ orders[1].quantity = 2

EmptyStore ==
  /\ DOMAIN clients = {}
  /\ orders = << >>
  /\ payments = << >>
  /\ pending = {}

\* C5: from an empty store, /order coffee 2 brings the client's balance to
\* 5.00; the client's /paid 5.00 then leaves one pending row of 5.00 and the
\* balance at 5.00; the manager's /received 1 then picks that row, and its
\* confirmation leaves the queue empty and the balance at 0.00.
C5_OrderPaidReceivedScenario ==
  [][\A user \in Users :
       LET c == user.id IN
       /\ (EmptyStore /\ ~is_cm(c)
           /\ order_command(user, <<"coffee", "2">>, Reliable))
            => /\ CoffeeOrder(c)'
               /\ getBalance(c)'.bal = 5000
       /\ (CoffeeOrder(c) /\ payments = << >> /\ pending = {}
           /\ paid_command(user, <<"5.00">>, Reliable))
            => /\ Cardinality(pending') = 1
               /\ \A r \in pending' : r.user_id = c /\ r.amount = 5000
               /\ getBalance(c)'.bal = 5000
       /\ (CoffeeOrder(c) /\ payments = << >> /\ Cardinality(pending) = 1
           /\ received_list(1, Manager, <<"1">>))
            => recv'[1].picked \in pending
       /\ (/\ CoffeeOrder(c)
           /\ pending = {recv[1].picked}
           /\ recv[1].picked.user_id = c
           /\ recv[1].picked.amount = 5000
           /\ Len(payments) = (IF recv[1].pc = "delete" THEN 1 ELSE 0)
           /\ Confirms(1))
            => /\ pending' = {}
               /\ getBalance(c)'.bal = 0]_vars

\* the scenario of C5 has run to its end
C5_ScenarioDone ==
  \E c \in ClientIds :
    /\ CoffeeOrder(c)
    /\ pending = {}
    /\ Len(payments) = 1
    /\ payments[1].user_id = c
    /\ payments[1].amount = 5000
    /\ ev.cmd = "received"
    /\ ev.outcome = "ok"
    /\ getBalance(c).bal = 0

\* C6: /order with a quantity of 0 or less fails and writes nothing: no
\* step that adds an order row, creates or changes a client record, or
\* reports success is the handling of such an /order.
C6_NonPositiveQuantityWritesNothing ==
  [][(clients' # clients \/ orders' # orders \/ ev'.outcome = "ok")
       => \A user \in Users, args \in OrderArgs :
            (Len(args) >= 2 /\ IsInt(args[2]) /\ IntOf(args[2]) <= 0)
              => ~order_command(user, args, Faulty)]_vars

\* a quantity of 0 or less has been turned down while orders are on record
C6_QuantityRejected ==
  /\ backend = "firestore"
  /\ ev = Event("order", "InvalidQuantity")
  /\ orders # << >>

\* C7: /order with an item code that is not in MENU fails before any write,
\* whatever its quantity argument: no step that adds an order row, creates
\* or changes a client record, or reports success is the handling of such
\* an /order.
C7_UnknownItemWritesNothing ==
  [][(clients' # clients \/ orders' # orders \/ ev'.outcome = "ok")
       => \A user \in Users, args \in OrderArgs :
            (Len(args) >= 1 /\ Lower(args[1]) \notin DOMAIN MENU)
              => ~order_command(user, args, Faulty)]_vars

\* an unknown item code has been turned down
C7_ItemRejected == ev = Event("order", "InvalidItem")

\* C8: /paid with an amount of 0 or less fails and leaves the pending queue
\* as it is: no step that changes the queue or reports success is the
\* handling of such a /paid.
C8_NonPositiveAmountLeavesQueue ==
  [][(pending' # pending \/ ev'.outcome = "ok")
       => \A user \in Users, args \in PaidArgs :
            (Len(args) >= 1 /\ IsFloat(args[1]) /\ FloatOf(args[1]) <= 0)
              => ~paid_command(user, args, Faulty)]_vars

\* an amount of 0 or less has been turned down while claims are pending
C8_AmountRejected ==
  /\ backend = "firestore"
  /\ ev = Event("paid", "InvalidAmount")
  /\ pending # {}

\* C9: while the store is available, /paid with an amount > 0 from any
\* account but the manager's succeeds and adds exactly one pending row, for
\* that account and that amount, whether or not the account has ordered.
C9_PaidAlwaysEnqueues ==
  [][\A user \in Users, args \in PaidArgs :
       (/\ ~is_cm(user.id)
        /\ Len(args) = 1 /\ IsFloat(args[1]) /\ FloatOf(args[1]) > 0
        /\ RoomForRow
        /\ paid_command(user, args, Reliable))
         => /\ ev'.outcome = "ok"
            /\ \E row \in pending' :
                 /\ row \notin pending
                 /\ pending' = pending \cup {row}
                 /\ row.user_id = user.id
                 /\ row.amount = FloatOf(args[1])]_vars

\* C10: a /received that reports success has removed exactly one pending row,
\* the one it picked, and has appended exactly one payments row, with that
\* row's client and amount; no other pending row, no order and no client
\* record is touched.
C10_ConfirmMovesExactlyOne ==
  [][\A p \in Procs :
       /\ Confirms(p) =>
            /\ recv[p].picked \in pending
            /\ pending' = pending \ {recv[p].picked}
            /\ UNCHANGED <<clients, orders>>
       /\ Inserts(p) =>
            /\ SubSeq(payments', 1, Len(payments)) = payments
            /\ payments'[Len(payments')].user_id = recv[p].picked.user_id
            /\ payments'[Len(payments')].amount = recv[p].picked.amount
            /\ UNCHANGED <<clients, orders>>]_vars

\* C11: a /received k of the manager with 1 <= k <= number of pending rows
\* that goes on to confirm a row picks the k-th row of the whole pending
\* queue in ascending order of claim time, however long the queue is.
C11_PicksKthOfFullQueue ==
  [][\A args \in ReceivedArgs :
       (/\ Len(args) = 1 /\ IsInt(args[1])
        /\ IntOf(args[1]) \in 1..Cardinality(pending)
        /\ received_list(1, Manager, args)
        /\ recv'[1].pc # "idle")
         => recv'[1].picked = SortByTs(pending)[IntOf(args[1])]]_vars

\* C12: every payments row is appended by a /received handler, from the
\* pending row that handler picked out of the queue, with that row's client
\* and amount; every pending row is enqueued by a /paid, with the sender's id
\* and the amount sent; no other command appends a payments row.
C12_PaymentsOnlyFromConfirmedClaims ==
  [][/\ payments' # payments =>
          /\ ev'.cmd = "received"
          /\ \E p \in Procs :
               /\ recv[p].pc \in {"add", "txn"}
               /\ recv[p].picked.id < nextPid
               /\ Len(payments') = Len(payments) + 1
               /\ SubSeq(payments', 1, Len(payments)) = payments
               /\ payments'[Len(payments')].claim = recv[p].picked.id
               /\ payments'[Len(payments')].user_id = recv[p].picked.user_id
               /\ payments'[Len(payments')].amount = recv[p].picked.amount
     /\ \A p \in Procs :
          (recv'[p] # recv[p] /\ recv'[p].pc # "idle" /\ recv[p].pc = "idle")
            => recv'[p].picked \in pending
     /\ \A r \in pending' \ pending :
          /\ ev'.cmd = "paid"
          /\ r.id = nextPid
          /\ \E user \in Users, args \in PaidArgs :
               /\ paid_command(user, args, Faulty)
               /\ r.user_id = user.id
               /\ r.amount = FloatOf(args[1])]_vars

\* claims of two clients have been confirmed
C12_TwoClientsConfirmed ==
  /\ Len(payments) = 2
  /\ payments[1].user_id # payments[2].user_id
  /\ pending = {}

\* the pending row id is in the queue
Live(id) == \E r \in pending : r.id = id

\* C13: whatever storage write of /received fails, and wherever the handler
\* stops, a claim that was enqueued is still in the pending queue or has a
\* payments row: none is removed from the queue without being recorded.
C13_NoClaimLost ==
  \A id \in 1..(nextPid - 1) : Live(id) \/ PaymentsFromClaim(id) # {}

\* a /received has failed after its payments row was written
C13_FailedAfterInsert ==
  /\ ev = Event("received", "error")
  /\ Quiet
  /\ \E r \in pending : PaymentsFromClaim(r.id) # {}

\* C14: once no /received is under way, including after one was cut short by
\* a storage failure between its insert and its delete, no claim is both in
\* the pending queue and recorded in payments.
C14_ClaimNotBothLiveAndRecorded ==
  Quiet => \A r \in pending : PaymentsFromClaim(r.id) = {}

\* seq is an initial part of seq2
IsPrefix(seq, seq2) ==
  Len(seq) <= Len(seq2) /\ SubSeq(seq2, 1, Len(seq)) = seq

\* C15: orders and payments are append-only: every step leaves the rows
\* already there in place and unchanged, and at most adds rows after them.
C15_LedgerAppendOnly ==
  [][IsPrefix(orders, orders') /\ IsPrefix(payments, payments')]_vars

\* the ledger holds several orders and a confirmed payment
C15_LedgerGrown == Len(orders) >= 2 /\ Len(payments) >= 1

\* the commands of the manager
ManagerOnly == {"received", "pending", "orders", "clients", "sales"}

\* C16: /received, /pending, /orders, /clients and /sales sent by an account
\* that is not the manager write nothing and reply with a refusal only: no
\* step of these commands that replies anything else, or changes a
\* collection or a handler's position, handles such an account's command.
C16_NonManagerRefused ==
  [][(/\ ev'.cmd \in ManagerOnly
      /\ \/ ev'.outcome # "refused"
         \/ <<clients, orders, payments, pending, recv>>'
              # <<clients, orders, payments, pending, recv>>)
       => \A user \in Users :
            ~is_cm(user.id) =>
              /\ \A args \in ReceivedArgs : ~received_list(1, user, args)
              /\ ~pending_command(user, OneUnreadable)
              /\ ~orders_command(user)
              /\ ~clients_command(user)
              /\ ~sales_command(user)]_vars

\* a manager-only command has been refused while there were claims to show
C16_Refused ==
  /\ ev.outcome = "refused"
  /\ ev.cmd \in {"received", "pending", "orders", "clients", "sales"}
  /\ pending # {}
  /\ orders # << >>

\* C17: whenever /sales shows figures, its total ordered is the sum of
\* total_price over all order rows, and its quantity for each item is the
\* sum of quantity over all order rows of that item.
C17_FleetOrderedIsSumOfOrders ==
  SalesOutcome = "report" =>
    /\ getFleetSummary.total_ordered = SumTotalPrice(orders)
    /\ getFleetSummary.item_sales = ItemSales(orders)

\* C18: whenever /sales shows figures, its total paid is the sum of amount
\* over all payments rows, including those of clients who never ordered, and
\* its pending total is the sum of amount over the pending queue.
C18_FleetPaidIsSumOfPayments ==
  SalesOutcome = "report" =>
    /\ getFleetSummary.total_paid = SumAmount(payments)
    /\ getFleetSummary.total_pending = SumPending(pending)

\* the readings in which exactly one document is unreadable
OneBad == {bad \in Unreadables(OneUnreadable) : Cardinality(bad) = 1}

\* seq without the rows of collection coll that are among bad
Without(seq, coll, bad) ==
  SelectSeq(seq, LAMBDA r :
    Doc(coll, IF coll = "pending" THEN r.id ELSE r.ts) \notin bad)

\* C19: a listing in which exactly one row is unreadable does not fail and
\* shows the other rows in the order they have in the listing of all rows:
\* for the queue shown by /pending and for the recent orders of /summary.
C19_ListingSkipsUnreadableRow ==
  \A prog \in ProgramsOf(backend), bad \in OneBad :
    /\ (\E r \in pending : Doc("pending", r.id) \in bad)
         => ListPending(prog, bad)
              = Without(ListPending(prog, {}), "pending", bad)
    /\ \A target \in ClientIds :
         \A fo \in SummaryFetches(prog, RowsOf(OrdersOf(target))),
            fp \in SummaryFetches(prog, RowsOf(PaymentsOf(target))) :
           (\E r \in fo : Doc("orders", r.ts) \in bad)
             => /\ SummaryReading(prog, fo, fp, bad).ok
                /\ SummaryReading(prog, fo, fp, bad).orders_list
                     = Without(SummaryReading(prog, fo, fp, {}).orders_list,
                               "orders", bad)

\* C20: a /balance over a history in which exactly one row is unreadable
\* does not fail: it reports the sums over the other rows.
C20_BalanceSkipsUnreadableRow ==
  \A prog \in ProgramsOf(backend), bad \in OneBad, target \in ClientIds :
    (\/ \E i \in DOMAIN orders :
          orders[i].user_id = target /\ Doc("orders", orders[i].ts) \in bad
     \/ \E i \in DOMAIN payments :
          /\ payments[i].user_id = target
          /\ Doc("payments", payments[i].ts) \in bad)
      => /\ BalanceReading(prog, target, bad).ok
         /\ BalanceReading(prog, target, bad).ordered
              = SumTotalPrice(Without(OrdersOf(target), "orders", bad))
         /\ BalanceReading(prog, target, bad).paid
              = SumAmount(Without(PaymentsOf(target), "payments", bad))

\* what a successful /order of user with args writes, whatever becomes of
\* its notification
OrderWrites(user, args) ==
  LET code == Lower(args[1])
      qty == IntOf(args[2])
  IN /\ orders' = Append(orders,
                     OrderRow(user.id, code, qty, qty * MENU[code].price))
     /\ DOMAIN clients' = DOMAIN clients \cup {user.id}
     /\ \A c \in DOMAIN clients \ {user.id} : clients'[c] = clients[c]
     /\ clients'[user.id].last_order = Len(orders) + 1
     /\ UNCHANGED <<payments, pending>>

\* what a successful /paid of user with args writes
PaidWrites(user, args) ==
  /\ \E amt \in {FloatOf(args[1]), Numeric2(FloatOf(args[1]))} :
       pending' = pending \cup {PendingRow(nextPid, user.id, amt, clock)}
  /\ UNCHANGED <<clients, orders, payments>>

\* what the last step of a successful /received writes
ReceivedWrites ==
  /\ pending' = pending \ {recv[1].picked}
  /\ IF recv[1].pc = "delete" THEN payments' = payments
     ELSE /\ Len(payments') = Len(payments) + 1
          /\ IsPrefix(payments, payments')
          /\ payments'[Len(payments')].claim = recv[1].picked.id
          /\ payments'[Len(payments')].amount = recv[1].picked.amount
  /\ UNCHANGED <<clients, orders>>

\* C21: a handler step that notifies writes the same order, queue, ledger
\* and client records whether bot.send_message goes through or raises: in
\* both cases the step has made exactly the writes of the successful command
\* and has sent the success reply.
C21_NotificationFailureWritesTheSame ==
  [][ev'.note \in {"sent", "failed"} =>
       /\ ev'.outcome = "ok"
       /\ ev'.cmd = "order" =>
            \E user \in Users, args \in OrderArgs :
              /\ order_validate_postgres(user, args) = "valid"
              /\ OrderWrites(user, args)
       /\ ev'.cmd = "paid" =>
            \E user \in Users, args \in PaidArgs :
              /\ paid_validate_postgres(user, args) = "valid"
              /\ PaidWrites(user, args)
       /\ ev'.cmd = "received" => ReceivedWrites]_vars

\* an order, its payment claim and the confirmation are on record, and the
\* notification of the confirmation failed
C21_ConfirmedUnnotified ==
  /\ ev.cmd = "received"
  /\ ev.note = "failed"
  /\ Len(orders) = 1
  /\ Len(payments) = 1
  /\ pending = {}

\* C22: after every successful /order of an account, a client record of
\* that account's id exists and its user_name is the display name the
\* account had in that order, also when the id was on record under another
\* name.
C22_ClientNameIsLatestOrderName ==
  [][ev'.outcome = "ok" =>
       \A user \in Users \cup Renamed, args \in OrderArgs :
         order_command(user, args, Reliable)
           => /\ user.id \in DOMAIN clients'
              /\ clients'[user.id].user_name
                   = get_user_display_name(user)]_vars

\* C23: every client id that owns an order row or a payments row has a
\* client record, also after a storage write failed between the order's
\* insert and the client's upsert.
C23_LedgerOwnersAreOnRecord ==
  \A c \in ClientIds :
    (OrdersOf(c) # << >> \/ PaymentsOf(c) # << >>) => c \in DOMAIN clients

\* C24: the payments row a /received appends carries, as the time of the
\* original claim, the time at which the claim it was made from was
\* enqueued, and not the time of the confirmation.
C24_PaymentKeepsClaimTime ==
  [][\A p \in Procs :
       Inserts(p) =>
         payments'[Len(payments')].original_ts = recv[p].picked.ts]_vars

\* C25: every pending row and every payments row in the store has an
\* amount greater than zero, whatever amount that passed the amount > 0
\* check it was made from, amounts of less than a cent included.
C25_StoredAmountsArePositive ==
  /\ \A r \in pending : r.amount > 0
  /\ \A i \in DOMAIN payments : payments[i].amount > 0

\* C26: a pending row stays in the queue, as it is, until a /received that
\* reports success removes it: a row leaves the queue only in the confirming
\* step of the handler that picked it; no /received with a position out of
\* range starts a confirmation; a row that enters the queue is a new claim
\* of a /paid, under an id no row had before; no id is live twice.
C26_ClaimLeavesOnlyByConfirmation ==
  [][/\ \A r \in pending \ pending' :
          \E p \in Procs : Confirms(p) /\ recv[p].picked = r
     /\ recv' # recv =>
          \A user \in Users, args \in ReceivedArgs :
            PositionOutOfRange(args) => ~received_list(1, user, args)
     /\ \A r \in pending' \ pending :
          /\ ev'.cmd = "paid"
          /\ r.id = nextPid
          /\ nextPid' = nextPid + 1
     /\ \A r \in pending : r.id < nextPid
     /\ \A r1, r2 \in pending' : r1.id = r2.id => r1 = r2]_vars

\* the pending row id is the oldest row of the queue
OldestLive(id) ==
  \E r \in pending : r.id = id /\ \A q \in pending : r.ts <= q.ts

C28_PendingListedOldestFirst ==
  \A prog \in ProgramsOf(backend) :
    LET l == ListPending(prog, {}) IN
    /\ Len(l) = Cardinality(pending)
    /\ RowsOf(l) = pending
    /\ \A i, j \in DOMAIN l : l[i].id < l[j].id => i < j

\* /pending has listed two claims after another claim was confirmed
C28_ListedAfterConfirmation ==
  /\ ev.cmd = "pending"
  /\ ev.outcome = "report"
  /\ Cardinality(pending) = 2
  /\ payments # << >>
  /\ \A r \in pending : payments[1].claim < r.id

\* C29: a /paid changes no balance and no ledger row: after it /balance
\* reports for every client what it reported before, and orders and
\* payments are as they were; the balance /balance reports for a client
\* goes down only in the step of a /received that inserts a payments row.
C29_OnlyConfirmationLowersBalance ==
  [][/\ ev'.cmd = "paid" =>
          /\ UNCHANGED <<orders, payments>>
          /\ \A d \in ClientIds : getBalance(d)' = getBalance(d)
     /\ <<orders, payments>>' # <<orders, payments>> =>
          \A d \in ClientIds :
            getBalance(d)'.bal < getBalance(d).bal
              => \E p \in Procs : Inserts(p)]_vars

\* C30: every order row in the store has a quantity greater than zero, an
\* item code of MENU, the price of that item in MENU as its price per item,
\* and quantity times that price as its total price.
C30_OrderRowsAreWellFormed ==
  \A i \in DOMAIN orders :
    LET o == orders[i] IN
    /\ o.quantity > 0
    /\ o.item_code \in DOMAIN MENU
    /\ o.price_per_item = MENU[o.item_code].price
    /\ o.total_price = o.quantity * o.price_per_item

\* orders of two different items are on record
C30_TwoItemsOrdered ==
  /\ ev.cmd = "order"
  /\ ev.outcome = "ok"
  /\ \E i, j \in DOMAIN orders : orders[i].item_code # orders[j].item_code

\* C31: for every client listed by /clients, the balance shown is the sum
\* of total_price over the client's order rows minus the sum of amount over
\* the client's payment rows.
C31_ClientsReportShowsBalance ==
  \A c \in DOMAIN getClientsReport :
    getClientsReport[c].bal
      = SumTotalPrice(OrdersOf(c)) - SumAmount(PaymentsOf(c))

\* the status a report must show for the balance bal it has computed
SignOf(status, bal) ==
  /\ status = "due" <=> bal > 0
  /\ status = "credit" <=> bal < 0
  /\ status = "settled" <=> bal = 0

\* C32: the status shown by /balance, by /summary and by /clients next to a
\* balance is "amount due" exactly when that balance is above zero, "credit"
\* exactly when it is below zero and "settled" exactly when it is zero.
C32_StatusFollowsBalanceSign ==
  /\ \A prog \in ProgramsOf(backend), c \in ClientIds :
       LET b == BalanceReading(prog, c, {}) IN
       /\ SignOf(BalanceOutcome(prog, c, {}), b.ordered - b.paid)
       /\ \A fo \in SummaryFetches(prog, RowsOf(OrdersOf(c))),
             fp \in SummaryFetches(prog, RowsOf(PaymentsOf(c))) :
            LET r == SummaryReading(prog, fo, fp, {}) IN
            SignOf(SummaryStatus(prog, r.total_ordered - r.total_paid),
                   r.total_ordered - r.total_paid)
  /\ \A c \in DOMAIN getClientsReport :
       SignOf(getClientsReport[c].status, getClientsReport[c].bal)

\* the listing shown (a sequence) holds the most recent of the rows all,
\* newest first: it runs in descending order of creation time and no row left
\* out is newer than a row shown
MostRecentFirst(shown, all) ==
  /\ \A i, j \in DOMAIN shown : i < j => shown[i].ts >= shown[j].ts
  /\ \A r \in all \ RowsOf(shown), q \in RowsOf(shown) : r.ts < q.ts

\* C33: the recent orders and the recent payments of /summary, and the
\* listing of /orders, hold the most recent rows in descending order of
\* creation time: no row left out is newer than a row shown.
C33_LimitedListingIsMostRecent ==
  \A prog \in ProgramsOf(backend) :
    /\ \A c \in ClientIds :
         \A fo \in SummaryFetches(prog, RowsOf(OrdersOf(c))),
            fp \in SummaryFetches(prog, RowsOf(PaymentsOf(c))) :
           LET r == SummaryReading(prog, fo, fp, {}) IN
           /\ MostRecentFirst(r.orders_list, RowsOf(OrdersOf(c)))
           /\ MostRecentFirst(r.payments_list, RowsOf(PaymentsOf(c)))
    /\ \A l \in OrdersListings(prog) :
         MostRecentFirst(l, RowsOf(OrdersShown))

\* C34: for every client, the balance /summary arrives at (its total
\* ordered minus its total paid) is the balance /balance reports for the
\* same client in the same state.
C34_SummaryBalanceIsBalance ==
  \A prog \in ProgramsOf(backend), c \in ClientIds :
    \A fo \in SummaryFetches(prog, RowsOf(OrdersOf(c))),
       fp \in SummaryFetches(prog, RowsOf(PaymentsOf(c))) :
      LET r == SummaryReading(prog, fo, fp, {})
          b == BalanceReading(prog, c, {})
      IN r.total_ordered - r.total_paid = b.ordered - b.paid

\* the manager's account is in no collection
ManagerAbsent ==
  /\ \A c \in DOMAIN clients : ~is_cm(c)
  /\ \A i \in DOMAIN orders : ~is_cm(orders[i].user_id)
  /\ \A r \in pending : ~is_cm(r.user_id)
  /\ \A i \in DOMAIN payments : ~is_cm(payments[i].user_id)

\* C35: an /order or a /paid sent by the manager's account is refused and
\* writes nothing (no step of /order or /paid that changes a collection or
\* replies anything but the refusal handles the manager's command), and the
\* manager's account never appears in the clients, the orders, the queue or
\* the payments.
C35_ManagerNeverWrites ==
  /\ []ManagerAbsent
  /\ [][(/\ ev'.cmd \in {"order", "paid"}
         /\ \/ ev'.outcome # "refused"
            \/ <<clients, orders, payments, pending, nextPid>>'
                 # <<clients, orders, payments, pending, nextPid>>)
          => \A user \in Users :
               is_cm(user.id) =>
                 /\ \A args \in OrderArgs :
                      ~order_command(user, args, SinkDown)
                 /\ \A args \in PaidArgs :
                      ~paid_command(user, args, SinkDown)]_vars

\* the manager's /order or /paid has been refused in a store that holds
\* orders and claims of clients
C35_ManagerRefused ==
  /\ ev.cmd \in {"order", "paid"}
  /\ ev.outcome = "refused"
  /\ orders # << >>
  /\ pending # {}

\* what a client c can be shown by its own /balance and /summary in program
\* prog: the figures of the balance, and the summaries the queries may yield
OwnView(prog, c) ==
  [balance |-> BalanceReading(prog, c, {}),
   summary |-> {SummaryReading(prog, fo, fp, {}) :
                  fo \in SummaryFetches(prog, RowsOf(OrdersOf(c))),
                  fp \in SummaryFetches(prog, RowsOf(PaymentsOf(c)))}]

\* the order rows and the payment rows of client c
OwnLedger(c) ==
  <<SelectSeq(orders, LAMBDA o : o.user_id = c),
    SelectSeq(payments, LAMBDA q : q.user_id = c)>>

\* C36: a /balance or /summary of an account that is not the manager and
\* names a target is refused (no step of these commands that replies
\* anything but the refusal handles such a request), and what a client's own
\* /balance and /summary show does not change in a step that leaves the
\* client's own orders and payments as they were, whatever the step does to
\* the ledgers of the others.
C36_ClientReadsOwnLedgerOnly ==
  [][/\ (ev'.cmd \in {"balance", "summary"} /\ ev'.outcome # "refused")
          => \A user \in Users, args \in BalanceArgs :
               (~is_cm(user.id) /\ Len(args) > 0)
                 => /\ ~balance_command(user, args, OneUnreadable)
                    /\ ~summary_command(user, args, OneUnreadable)
     /\ <<orders, payments>>' # <<orders, payments>>
          => \A prog \in ProgramsOf(backend), c \in ClientIds :
               OwnLedger(c)' = OwnLedger(c)
                 => OwnView(prog, c)' = OwnView(prog, c)]_vars

\* a client who named a target has been refused while both clients have
\* orders on record and a payment has been confirmed
C36_RefusedBesideOtherLedger ==
  /\ ev.cmd \in {"balance", "summary"}
  /\ ev.outcome = "refused"
  /\ \A c \in ClientIds : OrdersOf(c) # << >>
  /\ payments # << >>

TypeOK ==
  /\ backend \in {"firestore", "postgres"}
  /\ DOMAIN clients \subseteq ClientIds
  /\ Rows <= MaxRows
  /\ \A r \in pending : r.id \in Pids

====
